---- MODULE Spec2Model ----
(***************************************************************************)
(* A model of the gateway pairing, callback and session code of Outsmart:  *)
(*   src/components/gateway.py   the callback handler, the sidebar widget  *)
(*                               and the session queries                   *)
(*   src/interfaces/llms.py      the session queries used for routing and  *)
(*                               GatewayLLM                                *)
(*   src/views/displays.py       Display._get_gateway_providers            *)
(* The glueco_sdk calls the code makes (parse_pairing_string, connect,     *)
(* handle_callback, create_session, Session.is_expired, the client's       *)
(* chat_completion) are the environment: each may fail where a network or  *)
(* a parser can fail, and otherwise returns what its arguments determine.  *)
(***************************************************************************)
EXTENDS Integers, Sequences, FiniteSets, TLC

(***************************************************************************)
(* Bounds of the model.                                                    *)
(***************************************************************************)
\* the clock runs from 0 to MaxTime
MaxTime == 2
\* pairing attempts that reach generate_keypair
MaxAttempts == 1
\* GatewayLLM objects constructed
MaxLLMs == 1
\* chat-completion requests the proxy receives
MaxRequests == 1
\* pairing attempts initiated while the callbacks of earlier ones are awaited
MaxRacing == 2
\* worker threads that call GatewayLLM.send
MaxWorkers == 2
\* the turns of a game: arena.turn runs from 1 to MaxTurns
MaxTurns == 2

(***************************************************************************)
(* Python values.  Every value is a record whose kind field comes first,   *)
(* so values of different kinds can be compared.                           *)
(***************************************************************************)
PyNone == [kind |-> "none"]
PyStr(s) == [kind |-> "str", val |-> s]
\* a dict is the sequence of its <<key, value>> items, in insertion order
PyDict(items) == [kind |-> "dict", val |-> items]
PyTuple(elems) == [kind |-> "tuple", val |-> elems]
PyList(elems) == [kind |-> "list", val |-> elems]

\* bool(v) for the values above
Truthy(v) ==
    CASE v.kind = "none" -> FALSE
      [] v.kind = "str" -> v.val # ""
      [] OTHER -> Len(v.val) > 0

HasKey(d, k) == d.kind = "dict" /\ \E i \in 1..Len(d.val) : d.val[i][1] = k

\* d[k] for a dict d that has the key k
GetItem(d, k) == d.val[CHOOSE i \in 1..Len(d.val) : d.val[i][1] = k][2]

(***************************************************************************)
(* json.dumps / json.loads and urlsafe base64, as _encode_state and        *)
(* _decode_state use them.  A text is a record: JSON text holds the JSON   *)
(* value it denotes, base64 text holds the text it encodes, raw text is    *)
(* anything else.                                                          *)
(***************************************************************************)
RECURSIVE ToJson(_)
\* the JSON value json.dumps writes: a tuple is written as an array
ToJson(v) ==
    CASE v.kind = "dict" ->
            PyDict([i \in 1..Len(v.val) |-> <<v.val[i][1], ToJson(v.val[i][2])>>])
      [] v.kind = "tuple" -> PyList([i \in 1..Len(v.val) |-> ToJson(v.val[i])])
      [] v.kind = "list" -> PyList([i \in 1..Len(v.val) |-> ToJson(v.val[i])])
      [] OTHER -> v

json_dumps(data) == [kind |-> "json", val |-> ToJson(data)]

\* json.loads raises on a text that is not JSON
json_loads(text) ==
    IF text.kind = "json" THEN [ok |-> TRUE, val |-> text.val]
    ELSE [ok |-> FALSE]

b64encode(text) == [kind |-> "b64", val |-> text]

\* decoding a text that is not base64 raises, or yields bytes that are no JSON
b64decode(text) ==
    IF text.kind = "b64" THEN [ok |-> TRUE, val |-> text.val]
    ELSE [ok |-> FALSE]

_encode_state(data) == b64encode(json_dumps(data))

\* a faulty _decode_state: the JSON text is returned unparsed
_decode_state_Unparsed(encoded) ==
    LET raw == b64decode(encoded)
    IN  IF raw.ok THEN [ok |-> TRUE, val |-> raw.val] ELSE [ok |-> FALSE]

\* [ok |-> FALSE] stands for the exception _decode_state lets through
_decode_state(encoded) ==
    LET raw == b64decode(encoded)
    IN  IF raw.ok THEN json_loads(raw.val) ELSE [ok |-> FALSE]

(***************************************************************************)
(* The values the model draws from.                                        *)
(***************************************************************************)
\* the value params.get(...) returns for a query parameter that is absent
None == "None"
NoExpiry == -1
AbsentState == [kind |-> "absent"]
GarbageState == [kind |-> "raw", val |-> "%%garbage"]

ProxyUrls == {"https://gw.example", "https://gw2.example"}

\* the keypair generate_keypair returns on its k-th call: never one it returned before
PublicKeys == <<"pub1", "pub2", "pub3", "pub4">>
PrivateKeys == <<"priv1", "priv2", "priv3", "priv4">>
generate_keypair(k) ==
    [public_key |-> PyStr(PublicKeys[k]), private_key |-> PyStr(PrivateKeys[k])]

\* pending_data of _initiate_connection
PendingData(proxy_url, keypair) ==
    PyDict(<< <<"proxy_url", PyStr(proxy_url)>>,
              <<"keypair", PyDict(<< <<"public_key", keypair.public_key>>,
                                     <<"private_key", keypair.private_key>> >>)>> >>)

\* state blobs that decode, but not to a pending record
EmptyDictState == _encode_state(PyDict(<<>>))
ForeignState == _encode_state(PyDict(<< <<"foo", PyStr("bar")>> >>))

StatusVals == {None, "approved", "denied", "pending"}
AppIdVals == {None, "", "app-9"}
ExpiresVals == {NoExpiry, 2}

NoSession == [kind |-> "none"]
NoPending == PyNone
NoParams == [status |-> None, app_id |-> None, expires_at |-> NoExpiry, state |-> AbsentState]

DeniedMessage == "Connection was denied by the gateway owner."

(***************************************************************************)
(* The resource catalog the proxy at proxy_url grants, in fetch order.     *)
(* The first proxy lists one model under two llm grants, lists a model the *)
(* app also reaches directly, and holds a grant that is no llm; the second *)
(* grants nothing.                                                         *)
(***************************************************************************)
Catalog(proxy_url) ==
    IF proxy_url = PyStr("https://gw.example")
    THEN << [provider |-> "openai", type |-> "llm", models |-> <<"gpt-4o">>],
            [provider |-> "dalle", type |-> "image", models |-> <<"dall-e-3">>],
            [provider |-> "groq", type |-> "llm", models |-> <<"gpt-4o", "gpt-5-nano">>] >>
    ELSE <<>>

ModelNames == {"gpt-4o", "llama-3", "dall-e-3", "gpt-5-nano"}

(***************************************************************************)
(* State.                                                                  *)
(***************************************************************************)
VARIABLES
    query_params,       \* st.query_params: the query string of the page
    gateway_session,    \* st.session_state.gateway_session
    gateway_pending,    \* st.session_state.gateway_pending
    gateway_error,      \* st.session_state.gateway_error
    now,                \* the clock Session.is_expired reads
    keys_generated,     \* calls of generate_keypair so far
    registered,         \* the redirect_uri state blobs handed to connect
    llms,               \* the GatewayLLM objects constructed so far
    chat_requests,      \* chat-completion requests the proxy has received
    consumed,           \* history: the query parameters the last session was built from
    denied,             \* history: the state blob of the last denied callback handled
    disconnected,       \* history: Disconnect was clicked and no session installed since
    arrived,            \* history: the state blobs whose callback has been handled
    calls,              \* the calls of GatewayLLM.send the worker threads are in
    turn,               \* arena.turn
    player_llm,         \* player.llm
    constructing        \* the call of LLM.for_model_name that is under way

vars == <<query_params, gateway_session, gateway_pending, gateway_error, now,
          keys_generated, registered, llms, chat_requests, consumed, denied,
          disconnected, arrived, calls, turn, player_llm, constructing>>

\* session.is_expired(): a session is valid iff now < expires_at
is_expired(session) == now >= session.expires_at

(***************************************************************************)
(* glueco_sdk, as handle_gateway_callback calls it.                        *)
(***************************************************************************)
\* str(e) of the ImportError of a from glueco_sdk import ... that fails
SdkImportError == "No module named 'glueco_sdk'"
HandleCallbackError == "handle_callback failed"
CreateSessionError == "create_session failed"

\* handle_callback(status, app_id, expires_at): the CallbackResult of the query
\* parameters.  It holds a timestamp, so a callback without expires_at raises.
handle_callback(status, app_id, expires_at) ==
    IF expires_at = NoExpiry THEN [ok |-> FALSE, error |-> HandleCallbackError]
    ELSE [ok |-> TRUE, approved |-> (status = "approved"),
          app_id |-> app_id, expires_at |-> expires_at]

\* create_session(..., fetch_resources=True): the session with the catalog the
\* proxy returns, or a raise when the fetch fails.  Either way the proxy is asked.
create_session(proxy_url, app_id, keypair, expires_at) ==
    {[ok |-> FALSE, error |-> CreateSessionError],
     [ok |-> TRUE,
      session |-> [kind |-> "session", proxy_url |-> proxy_url, app_id |-> app_id,
                   keypair |-> keypair, expires_at |-> expires_at,
                   resources |-> Catalog(proxy_url)]]}

\* value[key]: the item, or the KeyError (a dict without the key) or TypeError
\* (no dict) it raises, with str(e) as error
TypeErrorText == "indices must be integers or slices, not str"
Subscript(value, key) ==
    IF HasKey(value, key) THEN [ok |-> TRUE, val |-> GetItem(value, key)]
    ELSE [ok |-> FALSE,
          error |-> IF value.kind = "dict" THEN "'" \o key \o "'" ELSE TypeErrorText]

(***************************************************************************)
(* handle_gateway_callback.  CallbackOutcomes is the set of results one    *)
(* run of the handler can have from the given query parameters and session *)
(* state: the four values it leaves, and whether it sent a resource-fetch  *)
(* request to the proxy (fetched) and installed a session (built).  Every  *)
(* path of the handler ends in a return: raised tells an exception that    *)
(* leaves the handler.                                                     *)
(***************************************************************************)
Outcome(params, session, pending, error, fetched, built) ==
    [query_params |-> params, gateway_session |-> session, gateway_pending |-> pending,
     gateway_error |-> error, fetched |-> fetched, built |-> built, raised |-> FALSE]

\* lines 56-62: the pending record the state parameter decodes to, or None
DecodePending(state) ==
    IF state.kind # "absent"
    THEN LET decoded == _decode_state(state)
         IN  IF decoded.ok THEN decoded.val ELSE PyNone
    ELSE PyNone

\* lines 64-67: no pending state, the parameters are cleared
StaleCallback(params, session, pending_slot, error) ==
    Outcome(NoParams, session, pending_slot, error, FALSE, FALSE)

\* a faulty CallbackFailed: the exception leaves the handler
CallbackFailed_Propagates(params, session, pending_slot, error_text, fetched) ==
    [query_params |-> params, gateway_session |-> session,
     gateway_pending |-> pending_slot, gateway_error |-> None, fetched |-> fetched,
     built |-> FALSE, raised |-> TRUE]

\* lines 96-98: the except branch
CallbackFailed(params, session, pending_slot, error_text, fetched) ==
    Outcome(NoParams, session, pending_slot, error_text, fetched, FALSE)

\* a faulty CallbackApproved: the session is installed and the redirect
\* parameters stay
CallbackApproved_KeepsParams(params, new_session) ==
    Outcome(params, new_session, NoPending, None, TRUE, TRUE)

\* lines 89-94: the session is installed
CallbackApproved(params, new_session) ==
    Outcome(NoParams, new_session, NoPending, None, TRUE, TRUE)

\* a faulty SessionArguments: the KeyPair is rebuilt with its two keys exchanged
SessionArguments_SwappedKeys(pending) ==
    LET kp == Subscript(pending, "keypair")
        pub == IF kp.ok THEN Subscript(kp.val, "public_key") ELSE kp
        priv == IF pub.ok THEN Subscript(kp.val, "private_key") ELSE pub
        url == IF priv.ok THEN Subscript(pending, "proxy_url") ELSE priv
    IN  IF url.ok
        THEN [ok |-> TRUE, proxy_url |-> url.val,
              keypair |-> [public_key |-> priv.val, private_key |-> pub.val]]
        ELSE url

\* lines 76-88: KeyPair(...) and the arguments of create_session.  The items
\* are read in the order of the code; the first that is missing raises.
SessionArguments(pending) ==
    LET kp == Subscript(pending, "keypair")
        pub == IF kp.ok THEN Subscript(kp.val, "public_key") ELSE kp
        priv == IF pub.ok THEN Subscript(kp.val, "private_key") ELSE pub
        url == IF priv.ok THEN Subscript(pending, "proxy_url") ELSE priv
    IN  IF url.ok
        THEN [ok |-> TRUE, proxy_url |-> url.val,
              keypair |-> [public_key |-> pub.val, private_key |-> priv.val]]
        ELSE url

\* lines 74-94: callback.approved holds
BuildSession(params, callback, pending, session, pending_slot) ==
    LET args == SessionArguments(pending)
    IN  IF ~args.ok
        THEN {CallbackFailed(params, session, pending_slot, args.error, FALSE)}
        ELSE {IF made.ok THEN CallbackApproved(params, made.session)
              ELSE CallbackFailed(params, session, pending_slot, made.error, TRUE) :
              made \in create_session(args.proxy_url, callback.app_id, args.keypair,
                                      callback.expires_at)}

\* lines 54-98: status == "approved" and app_id
ApprovedBranch(params, session, pending_slot, error) ==
    LET pending == DecodePending(params.state)
        callback == handle_callback(params.status, params.app_id, params.expires_at)
    IN  IF ~Truthy(pending)
        THEN {StaleCallback(params, session, pending_slot, error)}
        ELSE \* line 70: the import of the SDK raised
             {CallbackFailed(params, session, pending_slot, SdkImportError, FALSE)}
             \cup
             (IF ~callback.ok
              THEN {CallbackFailed(params, session, pending_slot, callback.error, FALSE)}
              ELSE IF callback.approved
              THEN BuildSession(params, callback, pending, session, pending_slot)
              ELSE {Outcome(params, session, pending_slot, error, FALSE, FALSE)})

\* a faulty DeniedBranch: the pending entry is left in place
DeniedBranch_KeepsPending(params, session, pending_slot) ==
    {Outcome(NoParams, session, pending_slot, DeniedMessage, FALSE, FALSE)}

\* a faulty DeniedBranch: a denied callback whose state decodes is treated as
\* an approval
DeniedBranch_InstallsSession(params, session, pending_slot) ==
    LET pending == DecodePending(params.state)
        callback == handle_callback("approved", params.app_id, params.expires_at)
    IN  IF Truthy(pending) /\ callback.ok
        THEN BuildSession(params, callback, pending, session, pending_slot)
        ELSE {Outcome(NoParams, session, NoPending, DeniedMessage, FALSE, FALSE)}

\* a faulty DeniedBranch: the session is dropped with the pending entry
DeniedBranch_DropsSession(params, session, pending_slot) ==
    {Outcome(NoParams, NoSession, NoPending, DeniedMessage, FALSE, FALSE)}

\* lines 100-103: status == "denied"
DeniedBranch(params, session, pending_slot) ==
    {Outcome(NoParams, session, NoPending, DeniedMessage, FALSE, FALSE)}

\* lines 48-103
CallbackOutcomes(params, session, pending_slot, error) ==
    IF params.status = "approved" /\ params.app_id \notin {None, ""}
    THEN ApprovedBranch(params, session, pending_slot, error)
    ELSE IF params.status = "denied"
    THEN DeniedBranch(params, session, pending_slot)
    ELSE {Outcome(params, session, pending_slot, error, FALSE, FALSE)}

\* one run of the handler; the two histories of callbacks are kept when
\* recorded holds
RunCallback(recorded) ==
    \E o \in CallbackOutcomes(query_params, gateway_session, gateway_pending,
                              gateway_error) :
        /\ query_params' = o.query_params
        /\ gateway_session' = o.gateway_session
        /\ gateway_pending' = o.gateway_pending
        /\ gateway_error' = o.gateway_error
        /\ consumed' = IF recorded /\ o.built THEN query_params ELSE consumed
        /\ denied' = IF /\ recorded
                        /\ query_params.status = "denied"
                        /\ query_params.state \in registered
                     THEN query_params.state ELSE denied
        /\ disconnected' = (disconnected /\ ~o.built)
        /\ UNCHANGED <<now, keys_generated, registered, llms, chat_requests, calls,
                       turn, player_llm, constructing>>

handle_gateway_callback == RunCallback(TRUE) /\ UNCHANGED arrived

\* the handler where no claim reads the histories of callbacks
handle_gateway_callback_unrecorded == RunCallback(FALSE) /\ UNCHANGED arrived

\* the handler with the pairing attempts whose callback it has handled kept
handle_gateway_callback_tracked ==
    /\ RunCallback(FALSE)
    /\ arrived' = IF /\ query_params.status \in {"approved", "denied"}
                     /\ query_params.state \in registered
                  THEN arrived \cup {query_params.state} ELSE arrived

(***************************************************************************)
(* The browser loads the page with a query string: the proxy's redirect    *)
(* back after an approval or a denial, a replay of an earlier redirect, or *)
(* a foreign or malformed URL.  A state blob that decodes to a pending     *)
(* record is one that _initiate_connection put into a redirect_uri.        *)
(***************************************************************************)
StateVals == {AbsentState, GarbageState, EmptyDictState, ForeignState} \cup registered

Redirect ==
    \E status \in StatusVals, app_id \in AppIdVals, expires_at \in ExpiresVals,
       state \in StateVals :
        /\ query_params' = [status |-> status, app_id |-> app_id,
                            expires_at |-> expires_at, state |-> state]
        /\ UNCHANGED <<gateway_session, gateway_pending, gateway_error, now,
                       keys_generated, registered, llms, chat_requests, consumed,
                       denied, disconnected, arrived, calls,
                       turn, player_llm, constructing>>

\* the proxy's own redirect back to the redirect_uri of a pairing attempt
ProxyExpiries == {1, 2}

ProxyRedirect ==
    \E status \in {"approved", "denied"}, expires_at \in ProxyExpiries,
       state \in registered :
        /\ query_params' = [status |-> status, app_id |-> "app-9",
                            expires_at |-> expires_at, state |-> state]
        /\ UNCHANGED <<gateway_session, gateway_pending, gateway_error, now,
                       keys_generated, registered, llms, chat_requests, consumed,
                       denied, disconnected, arrived, calls,
                       turn, player_llm, constructing>>

(***************************************************************************)
(* display_gateway_connection with the connect form and the connection     *)
(* flow.  The inputs of one run: whether the button shown is clicked, and  *)
(* the text of the pairing field.                                          *)
(***************************************************************************)
PairingInputs == {"", "   ", "not-a-pairing-string",
                  "pair::https://gw.example::tok123",
                  "pair::https://gw2.example::tok456"}

\* str.strip() on the inputs above
Strip(text) == IF text = "   " THEN "" ELSE text

ParseError == "invalid pairing string"
ConnectError == "connect failed"
EmptyPairingMessage == "Please enter a pairing string"
ConnectionFailed(e) == "Connection failed: " \o e

\* glueco_sdk.parse_pairing_string: pair::<proxy-url>::<token>
parse_pairing_string(pairing_string) ==
    CASE pairing_string = "pair::https://gw.example::tok123" ->
            [ok |-> TRUE, proxy_url |-> "https://gw.example", token |-> "tok123"]
      [] pairing_string = "pair::https://gw2.example::tok456" ->
            [ok |-> TRUE, proxy_url |-> "https://gw2.example", token |-> "tok456"]
      [] OTHER -> [ok |-> FALSE, error |-> ParseError]

\* what one run of the widget leaves: the session state, the number of keypairs
\* it generated, the redirect_uri state it handed to connect, and whether
\* Disconnect was clicked
Shown(session, pending, error, keys, redirect_states, disconnect) ==
    [gateway_session |-> session, gateway_pending |-> pending, gateway_error |-> error,
     keys |-> keys, redirect_states |-> redirect_states, disconnect |-> disconnect]

\* a faulty _initiate_connection: the pending record is stored before connect
\* is called
_initiate_connection_StoresFirst(pairing_string, session, pending, k) ==
    LET pairing_info == parse_pairing_string(pairing_string)
        keypair == generate_keypair(k + 1)
        pending_data == PendingData(pairing_info.proxy_url, keypair)
        encoded_state == _encode_state(pending_data)
    IN  {Shown(session, pending, ConnectionFailed(SdkImportError), 0, {}, FALSE)}
        \cup
        IF ~pairing_info.ok
        THEN {Shown(session, pending, ConnectionFailed(pairing_info.error), 0, {}, FALSE)}
        ELSE {Shown(session, pending_data, ConnectionFailed(ConnectError), 1, {}, FALSE),
              Shown(session, pending_data, None, 1, {encoded_state}, FALSE)}

\* a faulty ConnectCall: connect is called without the keypair of the blob and
\* registers one of its own
ConnectCall_OwnKeypair(pairing_string, k) ==
    LET pairing_info == parse_pairing_string(pairing_string)
        keypair == generate_keypair(k + 1)
        pending_data == PendingData(pairing_info.proxy_url, keypair)
    IN  [pairing_string |-> pairing_string, pending_data |-> pending_data,
         redirect_state |-> _encode_state(pending_data),
         keypair |-> [public_key |-> PyStr("pub-sdk"), private_key |-> PyStr("priv-sdk")]]

\* lines 189-254: the pending record, and the arguments connect is called
\* with for a pairing string that parses: the state of its redirect_uri and
\* the keypair whose public key the proxy registers
ConnectCall(pairing_string, k) ==
    LET pairing_info == parse_pairing_string(pairing_string)
        keypair == generate_keypair(k + 1)
        pending_data == PendingData(pairing_info.proxy_url, keypair)
    IN  [pairing_string |-> pairing_string, pending_data |-> pending_data,
         redirect_state |-> _encode_state(pending_data), keypair |-> keypair]

\* lines 179-270, with k the number of keypairs generated before
_initiate_connection(pairing_string, session, pending, k) ==
    LET pairing_info == parse_pairing_string(pairing_string)
        pending_data == ConnectCall(pairing_string, k).pending_data
        encoded_state == ConnectCall(pairing_string, k).redirect_state
    IN  \* lines 183-186: the import of the SDK raised
        {Shown(session, pending, ConnectionFailed(SdkImportError), 0, {}, FALSE)}
        \cup
        IF ~pairing_info.ok
        THEN {Shown(session, pending, ConnectionFailed(pairing_info.error), 0, {}, FALSE)}
        ELSE {\* connect raised
              Shown(session, pending, ConnectionFailed(ConnectError), 1, {}, FALSE),
              \* connect returned the approval URL
              Shown(session, pending_data, None, 1, {encoded_state}, FALSE)}

\* lines 157-176
_display_connect_form(clicked, pairing, session, pending, error, k) ==
    IF ~clicked THEN {Shown(session, pending, error, 0, {}, FALSE)}
    ELSE IF Strip(pairing) = ""
    THEN {Shown(session, pending, EmptyPairingMessage, 0, {}, FALSE)}
    ELSE _initiate_connection(Strip(pairing), session, pending, k)

\* lines 136-154
_display_connected_state(clicked, session, pending, error) ==
    IF clicked THEN {Shown(NoSession, pending, error, 0, {}, TRUE)}
    ELSE {Shown(session, pending, error, 0, {}, FALSE)}

\* a faulty DisplayOutcomes: the expiry of the stored session is not looked at
DisplayOutcomes_KeepsExpired(clicked, pairing, stored, pending, error, k) ==
    IF stored # NoSession
    THEN _display_connected_state(clicked, stored, pending, error)
    ELSE _display_connect_form(clicked, pairing, stored, pending, error, k)

\* lines 121-133
DisplayOutcomes(clicked, pairing, stored, pending, error, k) ==
    LET session == IF stored # NoSession /\ is_expired(stored) THEN NoSession ELSE stored
    IN  IF session # NoSession
        THEN _display_connected_state(clicked, session, pending, error)
        ELSE _display_connect_form(clicked, pairing, session, pending, error, k)

\* one run of the widget, with at most attempts keypairs generated in all
RunDisplay(attempts) ==
    \E clicked \in BOOLEAN, pairing \in PairingInputs :
        \E o \in DisplayOutcomes(clicked, pairing, gateway_session, gateway_pending,
                                 gateway_error, keys_generated) :
            /\ keys_generated + o.keys <= attempts
            /\ gateway_session' = o.gateway_session
            /\ gateway_pending' = o.gateway_pending
            /\ gateway_error' = o.gateway_error
            /\ keys_generated' = keys_generated + o.keys
            /\ registered' = registered \cup o.redirect_states
            /\ disconnected' = (disconnected \/ o.disconnect)
            /\ UNCHANGED <<query_params, now, llms, chat_requests, consumed, denied,
                           arrived, calls,
                           turn, player_llm, constructing>>

display_gateway_connection == RunDisplay(MaxAttempts)

\* the widget where the user starts a pairing attempt again before the
\* callback of the last one has come back
display_gateway_connection_racing == RunDisplay(MaxRacing)

\* time passes
Tick ==
    /\ now < MaxTime
    /\ now' = now + 1
    /\ UNCHANGED <<query_params, gateway_session, gateway_pending, gateway_error,
                   keys_generated, registered, llms, chat_requests, consumed, denied,
                   disconnected, arrived, calls,
                   turn, player_llm, constructing>>

(***************************************************************************)
(* The session queries.                                                    *)
(***************************************************************************)
NoClient == [kind |-> "none"]
\* player.llm of a player that has no LLM
NoLLM == [kind |-> "none"]
\* no call of LLM.for_model_name is under way
NotConstructing == [kind |-> "none"]

\* GatewayClient.from_session(session): the client signs with the session's
\* keypair for the session's proxy
from_session(session) == [kind |-> "client", session |-> session]

\* session.get_resources_by_type(type): the grants of that type, in catalog order
get_resources_by_type(session, type) ==
    SelectSeq(session.resources, LAMBDA resource : resource.type = type)

\* components/gateway.py
get_gateway_models ==
    IF gateway_session = NoSession \/ is_expired(gateway_session) THEN <<>>
    ELSE LET llm == get_resources_by_type(gateway_session, "llm")
         IN  [i \in 1..Len(llm) |-> "Gateway: " \o llm[i].provider]

is_gateway_connected == gateway_session # NoSession /\ ~is_expired(gateway_session)

get_gateway_client ==
    IF gateway_session = NoSession \/ is_expired(gateway_session) THEN NoClient
    ELSE from_session(gateway_session)

\* a faulty llms_is_gateway_connected: the expiry is not checked
llms_is_gateway_connected_AnySession == gateway_session # NoSession

\* interfaces/llms.py
llms_is_gateway_connected == gateway_session # NoSession /\ ~is_expired(gateway_session)

llms_get_gateway_client ==
    IF gateway_session # NoSession /\ ~is_expired(gateway_session)
    THEN from_session(gateway_session)
    ELSE NoClient

\* str.capitalize() on the provider names of the catalog
Capitalize(text) ==
    CASE text = "openai" -> "Openai"
      [] text = "groq" -> "Groq"
      [] text = "dalle" -> "Dalle"
      [] OTHER -> text

\* providers[key] = value on a dict held as the sequence of its items
SetItem(items, key, value) ==
    IF \E i \in 1..Len(items) : items[i][1] = key
    THEN [i \in 1..Len(items) |-> IF items[i][1] = key THEN <<key, value>> ELSE items[i]]
    ELSE Append(items, <<key, value>>)

RECURSIVE ProvidersOf(_)
\* lines 184-192: the dict built from the llm grants
ProvidersOf(grants) ==
    IF grants = <<>> THEN <<>>
    ELSE LET resource == grants[Len(grants)]
         IN  SetItem(ProvidersOf(SubSeq(grants, 1, Len(grants) - 1)),
                     Capitalize(resource.provider),
                     IF resource.models # <<>> THEN resource.models
                     ELSE <<resource.provider \o "/default">>)

\* Display._get_gateway_providers
_get_gateway_providers ==
    IF gateway_session = NoSession \/ is_expired(gateway_session) THEN <<>>
    ELSE ProvidersOf(get_resources_by_type(gateway_session, "llm"))

\* model_name in resource.models
Contains(models, model_name) == \E i \in 1..Len(models) : models[i] = model_name

\* a faulty _get_gateway_provider: the last grant that lists the model wins
_get_gateway_provider_LastMatch(model_name) ==
    IF gateway_session = NoSession THEN None
    ELSE LET llm == get_resources_by_type(gateway_session, "llm")
             hits == {i \in 1..Len(llm) : Contains(llm[i].models, model_name)}
         IN  IF hits = {} THEN None
             ELSE llm[CHOOSE i \in hits : \A j \in hits : i >= j].provider

\* LLM._get_gateway_provider
_get_gateway_provider(model_name) ==
    IF gateway_session = NoSession THEN None
    ELSE LET llm == get_resources_by_type(gateway_session, "llm")
             hits == {i \in 1..Len(llm) : Contains(llm[i].models, model_name)}
         IN  IF hits = {} THEN None
             ELSE llm[CHOOSE i \in hits : \A j \in hits : i <= j].provider

(***************************************************************************)
(* GatewayLLM.                                                             *)
(***************************************************************************)
\* GatewayLLM.__init__: the client is captured from the session state
GatewayLLM(model_name, provider) ==
    [model_name |-> model_name, provider |-> provider,
     _gateway_client |-> llms_get_gateway_client]

\* a faulty RoutedLLM: the connection is not checked
RoutedLLM_Unchecked(model_name) ==
    IF _get_gateway_provider(model_name) # None
    THEN {GatewayLLM(model_name, _get_gateway_provider(model_name))}
    ELSE {}

\* LLM.for_model_name, lines 140-143: the GatewayLLM it returns, if it routes
\* through the gateway
RoutedLLM(model_name) ==
    IF llms_is_gateway_connected /\ _get_gateway_provider(model_name) # None
    THEN {GatewayLLM(model_name, _get_gateway_provider(model_name))}
    ELSE {}

\* LLM.__subclasses__() with the model_names of each, in definition order
Subclasses ==
    << [cls |-> "GPT", model_names |-> <<"gpt-5-nano">>],
       [cls |-> "Claude", model_names |-> <<"claude-haiku-4-5">>],
       [cls |-> "GroqLLM", model_names |-> <<"openai/gpt-oss-120b">>],
       [cls |-> "Gemini", model_names |-> <<"gemini-2.5-flash-lite">>],
       [cls |-> "Grok", model_names |-> <<"grok-4-fast">>],
       [cls |-> "GatewayLLM", model_names |-> <<>>] >>

\* LLM.model_map()[model_name]: a later subclass overwrites an earlier one;
\* None when the name is no key of the mapping
model_map(model_name) ==
    LET named == {i \in 1..Len(Subclasses) :
                    Contains(Subclasses[i].model_names, model_name)}
    IN  IF named = {} THEN None
        ELSE Subclasses[CHOOSE i \in named : \A j \in named : i >= j].cls

\* LLM.for_model_name, lines 139-150: what the call returns or raises
ForModelName(model_name) ==
    IF RoutedLLM(model_name) # {}
    THEN [kind |-> "GatewayLLM", llm |-> CHOOSE llm \in RoutedLLM(model_name) : TRUE]
    ELSE IF model_map(model_name) = None
    THEN [kind |-> "KeyError"]
    ELSE [kind |-> "direct", cls |-> model_map(model_name), model_name |-> model_name]

(***************************************************************************)
(* Display.display_model_selector of views/displays.py, for one player.    *)
(***************************************************************************)
\* the API keys set in the environment of the app
ApiKeys == {"GROQ_API_KEY", "OPENAI_API_KEY"}

\* Display._get_builtin_providers: the dict as the sequence of its items
_get_builtin_providers ==
    (IF "GROQ_API_KEY" \in ApiKeys
     THEN << <<"Groq", <<"openai/gpt-oss-120b">> >> >> ELSE <<>>)
    \o (IF "OPENAI_API_KEY" \in ApiKeys
        THEN << <<"OpenAI", <<"gpt-5-nano">> >> >> ELSE <<>>)
    \o (IF ApiKeys \cap {"XAI_API_KEY", "GROK_API_KEY"} # {}
        THEN << <<"Grok", <<"grok-4-fast">> >> >> ELSE <<>>)
    \o (IF "ANTHROPIC_API_KEY" \in ApiKeys
        THEN << <<"Anthropic", <<"claude-haiku-4-5">> >> >> ELSE <<>>)
    \o (IF ApiKeys \cap {"GEMINI_API_KEY", "GOOGLE_API_KEY"} # {}
        THEN << <<"Gemini", <<"gemini-2.5-flash-lite">> >> >> ELSE <<>>)

\* lines 67-72: the built-in providers, then the gateway's under "Proxy - "
all_providers ==
    _get_builtin_providers
    \o [i \in 1..Len(_get_gateway_providers) |->
           <<"Proxy - " \o _get_gateway_providers[i][1], _get_gateway_providers[i][2]>>]

\* lines 89-122: what the two dropdowns can hold, as <<selected_provider,
\* selected_model>>; the model is None when the provider has no models
Selections ==
    IF all_providers = <<>> THEN {<<None, None>>}
    ELSE UNION {IF all_providers[i][2] = <<>> THEN {<<all_providers[i][1], None>>}
                ELSE {<<all_providers[i][1], all_providers[i][2][j]>> :
                         j \in 1..Len(all_providers[i][2])} :
                i \in 1..Len(all_providers)}

\* line 77: player.llm.model_name if player.llm else None
current_model(llm) ==
    IF llm = NoLLM THEN None
    ELSE IF llm.kind = "GatewayLLM" THEN llm.llm.model_name
    ELSE llm.model_name

\* a faulty SelectedLLM: the selection is applied whether the game has
\* started or not
SelectedLLM_Unlocked(game_started, selected_model, llm) ==
    IF selected_model # None /\ selected_model # current_model(llm)
    THEN IF ForModelName(selected_model).kind = "KeyError" THEN llm
         ELSE ForModelName(selected_model)
    ELSE llm

\* lines 124-134: player.llm after the selector has run; an exception of
\* for_model_name is caught and leaves it as it was
SelectedLLM(game_started, selected_model, llm) ==
    IF ~game_started /\ selected_model # None /\ selected_model # current_model(llm)
    THEN IF ForModelName(selected_model).kind = "KeyError" THEN llm
         ELSE ForModelName(selected_model)
    ELSE llm

\* lines 52-138, with game_started = self.arena.turn > 1 of line 64
display_model_selector ==
    \E selection \in Selections :
        /\ player_llm' = SelectedLLM(turn > 1, selection[2], player_llm)
        /\ UNCHANGED <<query_params, gateway_session, gateway_pending, gateway_error,
                       now, keys_generated, registered, llms, chat_requests, consumed,
                       denied, disconnected, arrived, calls, turn, constructing>>

\* Display.do_turn: the arena plays a turn and arena.turn advances
do_turn ==
    /\ turn < MaxTurns
    /\ turn' = turn + 1
    /\ UNCHANGED <<query_params, gateway_session, gateway_pending, gateway_error,
                   now, keys_generated, registered, llms, chat_requests, consumed,
                   denied, disconnected, arrived, calls, player_llm, constructing>>

for_model_name ==
    \E model_name \in ModelNames :
        /\ Cardinality(llms \cup RoutedLLM(model_name)) <= MaxLLMs
        /\ llms' = llms \cup RoutedLLM(model_name)
        /\ UNCHANGED <<query_params, gateway_session, gateway_pending, gateway_error,
                       now, keys_generated, registered, chat_requests, consumed,
                       denied, disconnected, arrived, calls,
                       turn, player_llm, constructing>>

\* a GatewayLLM constructed by a caller itself, with the default provider
DirectModels == {"gpt-4o"}

GatewayLLM_init ==
    \E model_name \in DirectModels :
        /\ Cardinality(llms \cup {GatewayLLM(model_name, "openai")}) <= MaxLLMs
        /\ llms' = llms \cup {GatewayLLM(model_name, "openai")}
        /\ UNCHANGED <<query_params, gateway_session, gateway_pending, gateway_error,
                       now, keys_generated, registered, chat_requests, consumed,
                       denied, disconnected, arrived, calls,
                       turn, player_llm, constructing>>

\* LLM.for_model_name, lines 139-143, up to the call of the constructor: the
\* connection is checked and the provider looked up
for_model_name_check ==
    /\ constructing = NotConstructing
    /\ \E model_name \in ModelNames :
          /\ llms_is_gateway_connected
          /\ _get_gateway_provider(model_name) # None
          /\ constructing' = [kind |-> "GatewayLLM", model_name |-> model_name,
                               provider |-> _get_gateway_provider(model_name)]
    /\ UNCHANGED <<query_params, gateway_session, gateway_pending, gateway_error,
                   now, keys_generated, registered, llms, chat_requests, consumed,
                   denied, disconnected, arrived, calls, turn, player_llm>>

\* GatewayLLM.__init__, lines 347-351, run by line 143: the client is captured
\* from the session state as it is by then, and the object is returned
for_model_name_return ==
    /\ constructing # NotConstructing
    /\ LET llm == GatewayLLM(constructing.model_name, constructing.provider)
       IN  /\ Cardinality(llms \cup {llm}) <= MaxLLMs
           /\ llms' = llms \cup {llm}
    /\ constructing' = NotConstructing
    /\ UNCHANGED <<query_params, gateway_session, gateway_pending, gateway_error,
                   now, keys_generated, registered, chat_requests, consumed,
                   denied, disconnected, arrived, calls, turn, player_llm>>

\* the client's chat_completion: the request reaches the proxy and the response
\* or a transport error comes back ("sent"), or the client raises before it
\* sends anything ("unsent")
chat_completion == {"sent", "unsent"}

\* GatewayLLM.send, lines 357-385: the number of requests it issues
Issued(llm) ==
    IF llm._gateway_client = NoClient THEN {0}
    ELSE {IF result = "sent" THEN 1 ELSE 0 : result \in chat_completion}

send ==
    \E llm \in llms : \E n \in Issued(llm) :
        /\ chat_requests + n <= MaxRequests
        /\ chat_requests' = chat_requests + n
        /\ UNCHANGED <<query_params, gateway_session, gateway_pending, gateway_error,
                       now, keys_generated, registered, llms, consumed, denied,
                       disconnected, arrived, calls,
                       turn, player_llm, constructing>>

(***************************************************************************)
(* GatewayLLM.send as the worker threads of the arena run it: a call is     *)
(* issued, waits in the client's chat_completion while other threads run,   *)
(* and completes with the response content or the exception.                *)
(***************************************************************************)
Workers == 1..MaxWorkers
Prompts == {"move?", "alliance?"}

Idle == [pc |-> "idle"]

NotConnectedError == "Gateway not connected"
SigningError == "signing failed"
TransportError == "transport failed"

\* the messages of the chat_completion call in lines 368-378
Request(llm, prompt) ==
    [provider |-> llm.provider, model |-> llm.model_name, prompt |-> prompt]

\* what comes back for a request that reached the proxy: the response to that
\* request, or a transport error
ProxyReplies(request) ==
    {[kind |-> "response", content |-> [reply_to |-> request]],
     [kind |-> "error", error |-> TransportError]}

\* a faulty SendResult: the exception is wrapped in a new one
SendResult_Wrapped(reply) ==
    IF reply.kind = "response" THEN [kind |-> "returned", content |-> reply.content]
    ELSE [kind |-> "raised", error |-> "Gateway request failed: " \o reply.error]

\* lines 380-384: return response.content, or the bare raise of the except branch
SendResult(reply) ==
    IF reply.kind = "response" THEN [kind |-> "returned", content |-> reply.content]
    ELSE [kind |-> "raised", error |-> reply.error]

\* a faulty send_call: a GatewayLLM without a client asks the session state
\* for one when send is called
send_call_Refreshing(w) ==
    /\ calls[w] = Idle
    /\ \E llm \in llms, prompt \in Prompts :
         LET client == IF llm._gateway_client = NoClient THEN llms_get_gateway_client
                       ELSE llm._gateway_client
         IN  IF client = NoClient
             THEN /\ calls' = [calls EXCEPT ![w] =
                         [pc |-> "done", llm |-> llm, requests |-> 0,
                          raised_by_client |-> None,
                          result |-> [kind |-> "raised", error |-> NotConnectedError]]]
                  /\ UNCHANGED chat_requests
             ELSE \E outcome \in chat_completion :
                    IF outcome = "sent"
                    THEN /\ calls' = [calls EXCEPT ![w] =
                                [pc |-> "waiting", llm |-> llm,
                                 request |-> Request(llm, prompt), requests |-> 1]]
                         /\ chat_requests' = chat_requests + 1
                    ELSE /\ calls' = [calls EXCEPT ![w] =
                                [pc |-> "done", llm |-> llm,
                                 request |-> Request(llm, prompt), requests |-> 0,
                                 raised_by_client |-> SigningError,
                                 result |-> SendResult([kind |-> "error",
                                                        error |-> SigningError])]]
                         /\ UNCHANGED chat_requests
    /\ UNCHANGED <<query_params, gateway_session, gateway_pending, gateway_error, now,
                   keys_generated, registered, llms, consumed, denied, disconnected,
                   arrived,
                   turn, player_llm, constructing>>

\* lines 357-378: worker w enters send; without a client it raises, else it
\* calls chat_completion, which raises before sending or puts the request on
\* the wire
send_call(w) ==
    /\ calls[w] = Idle
    /\ \E llm \in llms, prompt \in Prompts :
         IF llm._gateway_client = NoClient
         THEN /\ calls' = [calls EXCEPT ![w] =
                     [pc |-> "done", llm |-> llm, requests |-> 0,
                      raised_by_client |-> None,
                      result |-> [kind |-> "raised", error |-> NotConnectedError]]]
              /\ UNCHANGED chat_requests
         ELSE \E outcome \in chat_completion :
                IF outcome = "sent"
                THEN /\ calls' = [calls EXCEPT ![w] =
                            [pc |-> "waiting", llm |-> llm,
                             request |-> Request(llm, prompt), requests |-> 1]]
                     /\ chat_requests' = chat_requests + 1
                ELSE /\ calls' = [calls EXCEPT ![w] =
                            [pc |-> "done", llm |-> llm,
                             request |-> Request(llm, prompt), requests |-> 0,
                             raised_by_client |-> SigningError,
                             result |-> SendResult([kind |-> "error",
                                                    error |-> SigningError])]]
                     /\ UNCHANGED chat_requests
    /\ UNCHANGED <<query_params, gateway_session, gateway_pending, gateway_error, now,
                   keys_generated, registered, llms, consumed, denied, disconnected,
                   arrived,
                   turn, player_llm, constructing>>

\* a faulty send_complete: the call takes the reply to any request on the wire
send_complete_AnyReply(w) ==
    /\ calls[w].pc = "waiting"
    /\ \E v \in Workers :
         /\ calls[v].pc = "waiting"
         /\ \E reply \in ProxyReplies(calls[v].request) :
              calls' = [calls EXCEPT ![w] =
                  [pc |-> "done", llm |-> calls[w].llm, request |-> calls[w].request,
                   requests |-> calls[w].requests,
                   raised_by_client |-> IF reply.kind = "error" THEN reply.error ELSE None,
                   result |-> SendResult(reply)]]
    /\ UNCHANGED <<query_params, gateway_session, gateway_pending, gateway_error, now,
                   keys_generated, registered, llms, chat_requests, consumed, denied,
                   disconnected, arrived,
                   turn, player_llm, constructing>>

\* worker w enters send while a valid session is installed
send_call_connected(w) == llms_is_gateway_connected /\ send_call(w)

\* lines 368-385: chat_completion comes back to worker w and send ends
send_complete(w) ==
    /\ calls[w].pc = "waiting"
    /\ \E reply \in ProxyReplies(calls[w].request) :
         calls' = [calls EXCEPT ![w] =
             [pc |-> "done", llm |-> calls[w].llm, request |-> calls[w].request,
              requests |-> calls[w].requests,
              raised_by_client |-> IF reply.kind = "error" THEN reply.error ELSE None,
              result |-> SendResult(reply)]]
    /\ UNCHANGED <<query_params, gateway_session, gateway_pending, gateway_error, now,
                   keys_generated, registered, llms, chat_requests, consumed, denied,
                   disconnected, arrived,
                   turn, player_llm, constructing>>

Init ==
    /\ query_params = NoParams
    /\ gateway_session = NoSession
    /\ gateway_pending = NoPending
    /\ gateway_error = None
    /\ now = 0
    /\ keys_generated = 0
    /\ registered = {}
    /\ llms = {}
    /\ chat_requests = 0
    /\ consumed = NoParams
    /\ denied = AbsentState
    /\ disconnected = FALSE
    /\ arrived = {}
    /\ calls = [w \in Workers |-> Idle]
    /\ turn = 1
    /\ player_llm = NoLLM
    /\ constructing = NotConstructing

\* the pairing and callback flow, with any query string arriving at any time
Next ==
    \/ Redirect
    \/ handle_gateway_callback
    \/ display_gateway_connection

Spec == Init /\ [][Next]_vars

\* the life of a session: the proxy's redirects, the clock, the GatewayLLM
\* objects and their requests
SessionNext ==
    \/ ProxyRedirect
    \/ handle_gateway_callback_unrecorded
    \/ display_gateway_connection
    \/ Tick
    \/ for_model_name
    \/ GatewayLLM_init
    \/ send

SessionSpec == Init /\ [][SessionNext]_vars

\* pairing attempts started one after the other, with their callbacks coming
\* back in any order
PairingNext ==
    \/ display_gateway_connection_racing
    \/ ProxyRedirect
    \/ handle_gateway_callback_tracked

PairingSpec == Init /\ [][PairingNext]_vars

\* the state a completed pairing leaves: the first attempt was approved, its
\* callback handled and its session installed
Paired ==
    \E proxy_url \in ProxyUrls, expires_at \in ProxyExpiries :
        LET pending == PendingData(proxy_url, generate_keypair(1))
            params == [status |-> "approved", app_id |-> "app-9",
                       expires_at |-> expires_at, state |-> _encode_state(pending)]
        IN  \E o \in CallbackOutcomes(params, NoSession, pending, None) :
                /\ o.built
                /\ query_params = o.query_params
                /\ gateway_session = o.gateway_session
                /\ gateway_pending = o.gateway_pending
                /\ gateway_error = o.gateway_error
                /\ now = 0
                /\ keys_generated = 1
                /\ registered = {params.state}
                /\ llms = {}
                /\ chat_requests = 0
                /\ consumed = NoParams
                /\ denied = AbsentState
                /\ disconnected = FALSE
                /\ arrived = {}
                /\ calls = [w \in Workers |-> Idle]
                /\ turn = 1
                /\ player_llm = NoLLM
                /\ constructing = NotConstructing

\* a game on a paired app: the GatewayLLM objects of its players are built
\* and its worker threads call send on them, while time passes
WorkerNext ==
    \/ for_model_name
    \/ GatewayLLM_init
    \/ Tick
    \/ \E w \in Workers : send_call(w)
    \/ \E w \in Workers : send_complete(w)

WorkerSpec == Paired /\ [][WorkerNext]_vars

\* the state a pairing attempt leaves before its callback comes back: the
\* connection was initiated, the pending record is stored and the browser is
\* on its way to the proxy
Initiating ==
    \E pairing_string \in PairingInputs :
        \E o \in _initiate_connection(pairing_string, NoSession, NoPending, 0) :
            /\ o.redirect_states # {}
            /\ query_params = NoParams
            /\ gateway_session = o.gateway_session
            /\ gateway_pending = o.gateway_pending
            /\ gateway_error = o.gateway_error
            /\ now = 0
            /\ keys_generated = o.keys
            /\ registered = o.redirect_states
            /\ llms = {}
            /\ chat_requests = 0
            /\ consumed = NoParams
            /\ denied = AbsentState
            /\ disconnected = FALSE
            /\ arrived = {}
            /\ calls = [w \in Workers |-> Idle]
            /\ turn = 1
            /\ player_llm = NoLLM
            /\ constructing = NotConstructing

\* GatewayLLM objects built at any time, before the callback of the pairing
\* attempt is handled or after, and used once the app is paired: the worker
\* threads call send on them while a valid session is installed
LateNext ==
    \/ GatewayLLM_init
    \/ ProxyRedirect
    \/ handle_gateway_callback_unrecorded
    \/ \E w \in Workers : send_call_connected(w)
    \/ \E w \in Workers : send_complete(w)

LateSpec == Initiating /\ [][LateNext]_vars

\* LLM.for_model_name on a paired app, with the clock running between its
\* connection check and the constructor it calls, and the worker threads
\* calling send on the objects it has returned
RaceNext ==
    \/ for_model_name_check
    \/ for_model_name_return
    \/ Tick
    \/ \E w \in Workers : send_call(w)
    \/ \E w \in Workers : send_complete(w)

RaceSpec == Paired /\ [][RaceNext]_vars

\* a game on an app that is paired or not: models are selected for the
\* player and turns are played, while time passes and the connection panel
\* is used
ArenaNext ==
    \/ display_model_selector
    \/ do_turn
    \/ Tick
    \/ display_gateway_connection

ArenaSpec == (Init \/ Paired) /\ [][ArenaNext]_vars

(***************************************************************************)
(* Properties of handle_gateway_callback.                                  *)
(***************************************************************************)
\* the state parameter decodes to a pending record with proxy_url and keypair
WellFormedPending(state) ==
    LET pending == DecodePending(state)
    IN  /\ HasKey(pending, "proxy_url")
        /\ HasKey(pending, "keypair")
        /\ HasKey(GetItem(pending, "keypair"), "public_key")
        /\ HasKey(GetItem(pending, "keypair"), "private_key")

ApprovedCallback(params) ==
    /\ params.status = "approved"
    /\ params.app_id \notin {None, ""}
    /\ WellFormedPending(params.state)

\* session is built from the pending record and the callback values of params
BuiltFrom(session, params) ==
    LET pending == DecodePending(params.state)
    IN  /\ session.kind = "session"
        /\ session.proxy_url = GetItem(pending, "proxy_url")
        /\ session.keypair.public_key = GetItem(GetItem(pending, "keypair"), "public_key")
        /\ session.keypair.private_key = GetItem(GetItem(pending, "keypair"), "private_key")
        /\ session.app_id = params.app_id
        /\ session.expires_at = params.expires_at

\* the results one run of the handler can have from the current state
Returns == CallbackOutcomes(query_params, gateway_session, gateway_pending, gateway_error)

\* the handler returns o with the session of the callback installed
SessionInstalled(o) ==
    /\ BuiltFrom(o.gateway_session, query_params)
    /\ o.gateway_pending = NoPending
    /\ o.gateway_error = None
    /\ o.query_params = NoParams

\* the handler returns o through its except branch
ErrorAbsorbed(o) ==
    /\ o.gateway_error \in {SdkImportError, HandleCallbackError, CreateSessionError}
    /\ o.gateway_session = gateway_session
    /\ o.gateway_pending = gateway_pending
    /\ o.query_params = NoParams

\* C1, as claimed: an approved callback with an app_id, an expires_at and a
\* state that decodes to a pending record always leaves the session built from
\* that record installed, no pending entry, no error and no query parameters.
C1_AlwaysInstalls ==
    (ApprovedCallback(query_params) /\ query_params.expires_at # NoExpiry)
        => \A o \in Returns : SessionInstalled(o)

\* C1, amended: such a callback leaves the session built from the record
\* installed, no pending entry, no error and no query parameters, unless
\* the SDK import, handle_callback or create_session raised; then
\* gateway_error holds the error's text, gateway_session and gateway_pending
\* are as before and the query parameters are empty.
C1_InstallsOrAbsorbs ==
    ApprovedCallback(query_params)
        => \A o \in Returns : SessionInstalled(o) \/ ErrorAbsorbed(o)

\* a session built from the consumed callback is installed
C1_Witness ==
    /\ consumed # NoParams
    /\ BuiltFrom(gateway_session, consumed)
    /\ gateway_pending = NoPending
    /\ gateway_error = None
    /\ query_params = NoParams

\* C2: a denied callback, whatever its other parameters, leaves the
\* connection-denied message in gateway_error, no pending entry and no query
\* parameters.
C2_DeniedCallback ==
    query_params.status = "denied"
        => \A o \in Returns : /\ o.gateway_error = DeniedMessage
                              /\ o.gateway_pending = NoPending
                              /\ o.query_params = NoParams

\* the denied callback of a pairing attempt has been handled
C2_Witness ==
    /\ denied \in registered
    /\ gateway_error = DeniedMessage
    /\ gateway_pending = NoPending
    /\ query_params = NoParams

\* neither branch of the handler applies
Unhandled(params) ==
    \/ params.status \notin {"approved", "denied"}
    \/ params.status = "approved" /\ params.app_id \in {None, ""}

\* C3, as claimed: a callback whose status is absent or neither approved nor
\* denied, or approved without app_id, has its query parameters cleared and
\* nothing else changed.
C3_ClearsStaleParams ==
    Unhandled(query_params)
        => \A o \in Returns : /\ o.query_params = NoParams
                              /\ o.gateway_session = gateway_session
                              /\ o.gateway_pending = gateway_pending
                              /\ o.gateway_error = gateway_error

\* C4, as claimed: an approved callback whose pending state cannot be
\* recovered surfaces no error: gateway_error and gateway_session stay and the
\* query parameters are cleared.
C4_UnrecoverableIsSilent ==
    (/\ query_params.status = "approved"
     /\ query_params.app_id \notin {None, ""}
     /\ query_params.expires_at # NoExpiry
     /\ ~WellFormedPending(query_params.state))
        => \A o \in Returns : /\ o.gateway_error = gateway_error
                              /\ o.gateway_session = gateway_session
                              /\ o.query_params = NoParams

\* C5, as claimed: a second redirect with the query parameters a session was
\* already built from is stale: the handler builds and installs no session and
\* sets no error.
C5_ConsumedOnce ==
    (consumed # NoParams /\ query_params = consumed)
        => \A o \in Returns : /\ ~o.built
                              /\ o.gateway_session = gateway_session
                              /\ o.gateway_error = gateway_error

\* C6, as claimed: once the denied callback of a pairing attempt has been
\* handled, an approved callback with the state of that attempt installs no
\* session.
C6_DeniedStaysDenied ==
    (/\ denied \in registered
     /\ query_params.state = denied
     /\ query_params.status = "approved")
        => \A o \in Returns : ~o.built /\ o.gateway_session = gateway_session

\* a run of the handler from the state o leaves changes nothing and sends the
\* proxy nothing
Quiescent(o) ==
    CallbackOutcomes(o.query_params, o.gateway_session, o.gateway_pending,
                     o.gateway_error)
        = {Outcome(o.query_params, o.gateway_session, o.gateway_pending,
                   o.gateway_error, FALSE, FALSE)}

\* C7: every run of the handler ends in a state from which a second run, with
\* no redirect in between, changes none of gateway_session, gateway_pending,
\* gateway_error and the query parameters and contacts the proxy no further.
C7_Idempotent == \A o \in Returns : Quiescent(o)

\* the handler has installed a session, and from the state it left a run of
\* the handler does nothing
C7_Witness ==
    /\ consumed # NoParams
    /\ gateway_session # NoSession
    /\ query_params = NoParams
    /\ gateway_error = None
    /\ Returns = {Outcome(query_params, gateway_session, gateway_pending,
                          gateway_error, FALSE, FALSE)}

(***************************************************************************)
(* Properties of the session's life.                                       *)
(***************************************************************************)
\* some GatewayLLM holds a client whose session is valid now
SomeClientValid ==
    \E llm \in llms : /\ llm._gateway_client # NoClient
                      /\ ~is_expired(llm._gateway_client.session)

C9_NoRequestAfterDisconnect ==
    [][chat_requests' > chat_requests => ~disconnected]_vars

\* C10, as claimed: with an expired session stored, every operation that
\* reads it returns its empty result.
C10_ExpiredSessionYieldsNothing ==
    (gateway_session # NoSession /\ is_expired(gateway_session))
        => /\ ~is_gateway_connected
           /\ get_gateway_models = <<>>
           /\ get_gateway_client = NoClient
           /\ _get_gateway_providers = <<>>
           /\ \A model_name \in ModelNames : _get_gateway_provider(model_name) = None

(***************************************************************************)
(* Properties of send under concurrent callers.                            *)
(***************************************************************************)
\* worker w has returned from send with a response content
Returned(w) == calls[w].pc = "done" /\ calls[w].result.kind = "returned"

\* C11: in every interleaving of the worker threads' calls of send, no step
\* of a call changes gateway_session or any GatewayLLM object, and every call
\* that returns a content returns the content of the response to its own
\* request.
C11_ConcurrentSend ==
    /\ [][calls' # calls => UNCHANGED <<gateway_session, llms,
                                        turn, player_llm, constructing>>]_vars
    /\ [](\A w \in Workers :
            Returned(w) => calls[w].result.content.reply_to = calls[w].request)

\* one call has returned its content while another call, with another
\* request, was still waiting for its response
C11_Witness ==
    \E w \in Workers, v \in Workers :
        /\ Returned(w)
        /\ calls[w].result.content.reply_to = calls[w].request
        /\ calls[v].pc = "waiting"
        /\ calls[v].request # calls[w].request

(***************************************************************************)
(* Properties of the pairing attempts.                                     *)
(***************************************************************************)
\* the pending entry of every attempt whose callback has not come back yet
\* is the one stored
EntriesKept == \A state \in registered \ arrived : gateway_pending = DecodePending(state)

\* an approved callback of an attempt builds the session of that attempt
BuiltFromOwnAttempt ==
    query_params.state \in registered
        => \A o \in Returns : o.built => BuiltFrom(o.gateway_session, query_params)

\* C12, as claimed: with pairing attempts initiated before their callbacks
\* arrive, no attempt's pending entry is overwritten by another attempt, and
\* each approved callback builds its session from the proxy_url and keypair
\* of its own attempt.
C12_RacingAttempts == EntriesKept /\ BuiltFromOwnAttempt

\* what an observer of a redirect URL who holds no secret reads from its state
\* parameter: the strings of the record it decodes to
RECURSIVE StringsIn(_)
StringsIn(v) ==
    CASE v.kind = "str" -> {v.val}
      [] v.kind = "dict" ->
            UNION {StringsIn(v.val[i][2]) : i \in 1..Len(v.val)}
      [] v.kind \in {"list", "tuple"} -> UNION {StringsIn(v.val[i]) : i \in 1..Len(v.val)}
      [] OTHER -> {}

ObserverReads(state) ==
    LET decoded == _decode_state(state)
    IN  IF decoded.ok THEN StringsIn(decoded.val) ELSE {}

\* C13, as claimed: no redirect_uri handed to connect lets an observer of the
\* URL who holds no secret recover the private key of a pairing attempt.
C13_PrivateKeyProtected ==
    \A state \in registered, k \in 1..Len(PrivateKeys) :
        PrivateKeys[k] \notin ObserverReads(state)

(***************************************************************************)
(* Properties of the error handling.                                       *)
(***************************************************************************)
\* str(e) of the exceptions the steps of the approved branch raise
ApprovedBranchErrors ==
    {SdkImportError, HandleCallbackError, CreateSessionError, TypeErrorText,
     "'keypair'", "'public_key'", "'private_key'", "'proxy_url'"}

\* the handler returns o with a failure of the approved branch absorbed
FailureAbsorbed(o) ==
    /\ o.gateway_error \in ApprovedBranchErrors
    /\ o.query_params = NoParams
    /\ o.gateway_session = gateway_session

\* C14: no run of the handler lets an exception out; a run of the approved
\* branch on a pending record either installs the session or, a step having
\* failed, leaves the error's text in gateway_error, no query parameters and
\* gateway_session as it was; and no session is installed when
\* handle_callback or the KeyPair reconstruction fails.
C14_ErrorsAbsorbed ==
    /\ \A o \in Returns : ~o.raised
    /\ (/\ query_params.status = "approved"
        /\ query_params.app_id \notin {None, ""}
        /\ Truthy(DecodePending(query_params.state)))
           => /\ \A o \in Returns : o.built \/ FailureAbsorbed(o)
              /\ (query_params.expires_at = NoExpiry \/ ~WellFormedPending(query_params.state))
                    => \A o \in Returns : ~o.built

\* with a session installed, a later approved callback has failed in
\* create_session: the error is shown and the session is still there
C14_Witness ==
    /\ consumed # NoParams
    /\ BuiltFrom(gateway_session, consumed)
    /\ gateway_error = CreateSessionError
    /\ query_params = NoParams

\* C15: a call of send in which the client's chat_completion raised ends
\* with that same exception raised to its caller, and no call of send issues
\* more than one request.
C15_ErrorsPropagate ==
    \A w \in Workers :
        calls[w].pc = "done"
            => /\ calls[w].requests <= 1
               /\ calls[w].raised_by_client # None
                    => calls[w].result = [kind |-> "raised",
                                          error |-> calls[w].raised_by_client]

\* one call has ended with the transport error of its request, another with
\* the signing error the client raised before it sent anything
C15_Witness ==
    \E w \in Workers, v \in Workers :
        /\ calls[w].pc = "done"
        /\ calls[w].raised_by_client = TransportError
        /\ calls[w].result.error = TransportError
        /\ calls[w].requests = 1
        /\ calls[v].pc = "done"
        /\ calls[v].raised_by_client = SigningError
        /\ calls[v].requests = 0

\* the pairing strings _display_connect_form passes on
SubmittedPairings == {Strip(pairing) : pairing \in PairingInputs} \ {""}

\* the results a call of _initiate_connection can have in the current state
Initiated(pairing_string) ==
    _initiate_connection(pairing_string, gateway_session, gateway_pending, keys_generated)

\* C16: a call of _initiate_connection that fails leaves gateway_error =
\* "Connection failed: <error>", gateway_pending and gateway_session as they
\* were and emits no redirect; a pairing string that does not parse always
\* fails so, with the parser's error unless the import failed before it.
C16_InitiationFailure ==
    \A pairing_string \in SubmittedPairings :
        /\ \A o \in Initiated(pairing_string) :
              o.gateway_error # None
                 => /\ o.gateway_error \in {ConnectionFailed(SdkImportError),
                                            ConnectionFailed(ParseError),
                                            ConnectionFailed(ConnectError)}
                    /\ o.gateway_pending = gateway_pending
                    /\ o.gateway_session = gateway_session
                    /\ o.redirect_states = {}
        /\ ~parse_pairing_string(pairing_string).ok
              => \A o \in Initiated(pairing_string) :
                    o.gateway_error \in {ConnectionFailed(SdkImportError),
                                         ConnectionFailed(ParseError)}

\* with the pending record of a first attempt stored, the connect request of
\* a second attempt has failed: the error is shown and the record is the
\* first attempt's
C16_Witness ==
    /\ keys_generated = 2
    /\ gateway_error = ConnectionFailed(ConnectError)
    /\ gateway_pending # NoPending
    /\ registered = {_encode_state(gateway_pending)}

(***************************************************************************)
(* Properties of the state encoding.                                       *)
(***************************************************************************)
\* the pending records _initiate_connection can build
PendingRecords ==
    {PendingData(proxy_url, generate_keypair(k)) :
        proxy_url \in ProxyUrls, k \in 1..Len(PrivateKeys)}

RoundTrips(record) == _decode_state(_encode_state(record)) = [ok |-> TRUE, val |-> record]

ListedAt(session, model_name) ==
    {i \in 1..Len(session.resources) :
        /\ session.resources[i].type = "llm"
        /\ Contains(session.resources[i].models, model_name)}

\* C18: with a session stored, _get_gateway_provider returns None for a model
\* that no llm grant of the session lists, and otherwise the provider of the
\* grant that comes first in the catalog among the llm grants listing it.
C18_FirstMatch ==
    gateway_session # NoSession
        => \A model_name \in ModelNames :
              LET listed == ListedAt(gateway_session, model_name)
              IN  IF listed = {} THEN _get_gateway_provider(model_name) = None
                  ELSE \E i \in listed :
                          /\ \A j \in listed : i <= j
                          /\ _get_gateway_provider(model_name)
                                = gateway_session.resources[i].provider

\* the session's catalog lists gpt-4o under two llm grants, the first being
\* openai's, and dall-e-3 under no llm grant
C18_Witness ==
    /\ gateway_session # NoSession
    /\ Cardinality(ListedAt(gateway_session, "gpt-4o")) = 2
    /\ _get_gateway_provider("gpt-4o") = "openai"
    /\ _get_gateway_provider("dall-e-3") = None

\* the gateway is connected: a session is stored and its expiry is ahead
Connected == gateway_session # NoSession /\ now < gateway_session.expires_at

\* the class whose model_names contain the name, if any
RegisteredFor(model_name) ==
    {Subclasses[i].cls : i \in {j \in 1..Len(Subclasses) :
                                  Contains(Subclasses[j].model_names, model_name)}}

\* C19: for_model_name returns a GatewayLLM exactly when the gateway is
\* connected and some llm grant of the session lists the model; otherwise it
\* returns an instance of the class registered for the name, and raises
\* KeyError when no class is.
C19_Routing ==
    \A model_name \in ModelNames :
        LET result == ForModelName(model_name)
        IN  IF Connected /\ ListedAt(gateway_session, model_name) # {}
            THEN /\ result.kind = "GatewayLLM"
                 /\ result.llm.model_name = model_name
            ELSE IF RegisteredFor(model_name) = {}
            THEN result.kind = "KeyError"
            ELSE /\ result.kind = "direct"
                 /\ result.cls \in RegisteredFor(model_name)

\* a session that lists both models is stored and has expired: the model
\* with a direct class goes to that class, the other raises KeyError
C19_Witness ==
    /\ gateway_session # NoSession
    /\ now >= gateway_session.expires_at
    /\ ListedAt(gateway_session, "gpt-5-nano") # {}
    /\ ListedAt(gateway_session, "gpt-4o") # {}
    /\ ForModelName("gpt-5-nano").kind = "direct"
    /\ ForModelName("gpt-4o").kind = "KeyError"

Displayed(clicked, pairing) ==
    DisplayOutcomes(clicked, pairing, gateway_session, gateway_pending, gateway_error,
                    keys_generated)

\* C21: every run of display_gateway_connection leaves gateway_session None
\* or not expired; a run with an expired session stored leaves None and goes
\* through the connect form.
C21_ExpiredSessionDropped ==
    \A clicked \in BOOLEAN, pairing \in PairingInputs :
        /\ \A o \in Displayed(clicked, pairing) :
              o.gateway_session = NoSession \/ ~is_expired(o.gateway_session)
        /\ (gateway_session # NoSession /\ is_expired(gateway_session))
              => /\ \A o \in Displayed(clicked, pairing) : o.gateway_session = NoSession
                 /\ Displayed(clicked, pairing)
                      = _display_connect_form(clicked, pairing, NoSession,
                                              gateway_pending, gateway_error,
                                              keys_generated)

\* a GatewayLLM holds a client of a session that has expired, and the widget
\* has dropped that session: nobody clicked Disconnect
C21_Witness ==
    /\ gateway_session = NoSession
    /\ ~disconnected
    /\ \E llm \in llms : /\ llm._gateway_client # NoClient
                         /\ is_expired(llm._gateway_client.session)

\* the keypair a pending record holds
KeypairIn(pending) ==
    [public_key |-> GetItem(GetItem(pending, "keypair"), "public_key"),
     private_key |-> GetItem(GetItem(pending, "keypair"), "private_key")]

\* the results of the handler on the proxy's approved redirect to state
EchoedBack(state, expires_at) ==
    CallbackOutcomes([status |-> "approved", app_id |-> "app-9",
                      expires_at |-> expires_at, state |-> state],
                     gateway_session, gateway_pending, gateway_error)

\* C22: for a pairing string that parses, the state blob handed to connect
\* holds the keypair that connect is called with and the proxy_url parsed
\* from the pairing string, it is the blob of the redirect emitted, and a
\* session built from that blob echoed back carries that keypair and
\* proxy_url.
C22_RegisteredKeypair ==
    \A pairing_string \in SubmittedPairings :
        parse_pairing_string(pairing_string).ok
          => LET call == ConnectCall(pairing_string, keys_generated)
                 pending == DecodePending(call.redirect_state)
                 proxy_url == PyStr(parse_pairing_string(pairing_string).proxy_url)
             IN  /\ KeypairIn(pending) = call.keypair
                 /\ GetItem(pending, "proxy_url") = proxy_url
                 /\ \A o \in Initiated(pairing_string) :
                       o.redirect_states \subseteq {call.redirect_state}
                 /\ \A expires_at \in ProxyExpiries :
                       \A o \in EchoedBack(call.redirect_state, expires_at) :
                          o.built => /\ o.gateway_session.keypair = call.keypair
                                     /\ o.gateway_session.proxy_url = proxy_url

\* the callback of a pairing attempt has been handled and the session
\* installed carries the keypair generated for that attempt
C22_Witness ==
    /\ gateway_session # NoSession
    /\ \E state \in arrived, k \in 1..keys_generated :
          /\ gateway_session.keypair = generate_keypair(k)
          /\ KeypairIn(DecodePending(state)) = generate_keypair(k)
          /\ gateway_session.proxy_url = GetItem(DecodePending(state), "proxy_url")

(***************************************************************************)
(* Properties of the model selector.                                       *)
(***************************************************************************)
\* C23: once the game has started (arena.turn > 1) no step replaces
\* player.llm, whatever is selected and whatever the state of the gateway
\* session is.
C23_SelectionLocked == [][turn > 1 => player_llm' = player_llm]_vars

\* the game has started, the gateway is connected and the dropdowns can hold a
\* model other than the player's that would be routed through the gateway
C23_Witness ==
    /\ turn > 1
    /\ is_gateway_connected
    /\ player_llm # NoLLM
    /\ \E selection \in Selections :
          /\ selection[2] \notin {None, current_model(player_llm)}
          /\ ForModelName(selection[2]).kind = "GatewayLLM"

(***************************************************************************)
(* Properties of the session slot.                                         *)
(***************************************************************************)
\* C24: a step that puts a session into gateway_session that was not there
\* before is a run of handle_gateway_callback on a callback with
\* status=approved, a non-empty app_id and a state that decodes to a pending
\* record: the session is built from that callback, and the step clears the
\* query parameters, the pending entry and the error as the handler does.
C24_InstalledOnlyByCallback ==
    [][(gateway_session' # gateway_session /\ gateway_session' # NoSession)
          => /\ query_params.status = "approved"
             /\ query_params.app_id \notin {None, ""}
             /\ Truthy(DecodePending(query_params.state))
             /\ BuiltFrom(gateway_session', query_params)
             /\ query_params' = NoParams
             /\ gateway_pending' = NoPending
             /\ gateway_error' = None]_vars

\* a session was installed by an approved callback, and a denied callback
\* handled after it has left that session in place
C24_Witness ==
    /\ ApprovedCallback(consumed)
    /\ BuiltFrom(gateway_session, consumed)
    /\ gateway_error = DeniedMessage
    /\ keys_generated > 0

\* C25: a denied callback leaves gateway_session as it was, and a session
\* that is reported as connected before the handler runs is reported as
\* connected after it.
C25_DeniedKeepsSession ==
    query_params.status = "denied"
        => \A o \in Returns :
              /\ o.gateway_session = gateway_session
              /\ is_gateway_connected
                    => /\ o.gateway_session # NoSession
                       /\ ~is_expired(o.gateway_session)

\* a denied callback has been handled and the session installed before it is
\* still connected
C25_Witness ==
    /\ gateway_error = DeniedMessage
    /\ query_params = NoParams
    /\ gateway_pending = NoPending
    /\ is_gateway_connected

(***************************************************************************)
(* Properties of the client a GatewayLLM captures.                         *)
(***************************************************************************)
\* C26, as claimed: every GatewayLLM that LLM.for_model_name has returned
\* holds a gateway client, also when the session expires between the
\* connection check and the constructor's get_gateway_client call.
C26_ClientCaptured ==
    \A llm \in llms : llm._gateway_client # NoClient

\* C27: a call of send on a GatewayLLM that captured no client ends with the
\* "Gateway not connected" RuntimeError and issues no request, also when a
\* valid session is installed at the time of the call; while every GatewayLLM
\* is without a client the proxy has received no chat-completion request.
C27_StaleClientRaises ==
    /\ \A w \in Workers :
          (calls[w] # Idle /\ calls[w].llm._gateway_client = NoClient)
             => /\ calls[w].pc = "done"
                /\ calls[w].result = [kind |-> "raised", error |-> NotConnectedError]
                /\ calls[w].requests = 0
    /\ (\A llm \in llms : llm._gateway_client = NoClient) => chat_requests = 0

\* a session is installed and valid, and send, called while it was, has
\* raised on a GatewayLLM built without a client
C27_Witness ==
    /\ is_gateway_connected
    /\ \E w \in Workers :
          /\ calls[w].pc = "done"
          /\ calls[w].llm._gateway_client = NoClient
          /\ calls[w].result.kind = "raised"

====
